---- MODULE Spec2Model ----
(***************************************************************************)
(* Model of arailly/myx509: the x509 package (NewPrivateKey, SaveToFile,   *)
(* LoadPrivateKeyFromFile, NewCertificate, Certificate.SaveToFile) and the *)
(* two command-line tools built on it (the key-only generator and the      *)
(* key+certificate generator).                                             *)
(***************************************************************************)
EXTENDS Integers, Sequences, FiniteSets, TLC

(***************************************************************************)
(* Bounds of the model.                                                    *)
(***************************************************************************)
\* longest path string drawn for -key / -o / -cert
MaxPathLen == 3
\* bytes of the wide two's-complement integers used for exact arithmetic
WideLen == 12
\* order of the toy group standing in for P-256 (scalars take two bytes)
CurveN == 1009

(***************************************************************************)
(* Program constants.                                                      *)
(***************************************************************************)
\* time.Duration is an int64 count of nanoseconds
DurationBytes == 8
\* serialNumberLimit = 1 << 128
SerialBits == 128
\* os.WriteFile(filePath, der, 0600)
KeyFileMode == 384
\* os.WriteFile(filePath, c.derBytes, 0644)
CertFileMode == 420
\* x509.KeyUsageDigitalSignature
KeyUsageDigitalSignature == 1
\* x509.KeyUsageCertSign
KeyUsageCertSign == 32
\* flag default of -days
DefaultDays == 365

(***************************************************************************)
(* Wide integers: little-endian sequences of WideLen bytes, two's          *)
(* complement.  They carry the values (nanosecond counts) that do not fit  *)
(* the model checker's own integers.                                       *)
(***************************************************************************)
RECURSIVE BFrom(_, _)
BFrom(n, k) == IF k = 0 THEN <<>> ELSE <<n % 256>> \o BFrom(n \div 256, k - 1)

BI(n) == BFrom(n, WideLen)

RECURSIVE BAddC(_, _, _)
BAddC(a, b, c) ==
  IF a = <<>> THEN <<>>
  ELSE LET s == Head(a) + Head(b) + c
       IN  <<s % 256>> \o BAddC(Tail(a), Tail(b), s \div 256)

BAdd(a, b) == BAddC(a, b, 0)

BNeg(a) == BAddC([i \in DOMAIN a |-> 255 - a[i]], [i \in DOMAIN a |-> 0], 1)

BSub(a, b) == BAdd(a, BNeg(b))

BIsNeg(a) == a[Len(a)] >= 128

BLeq(a, b) == ~BIsNeg(BSub(b, a))

RECURSIVE ConvSum(_, _, _, _)
ConvSum(a, b, k, i) ==
  IF i > k THEN 0 ELSE a[i] * b[k + 1 - i] + ConvSum(a, b, k, i + 1)

RECURSIVE BMulC(_, _, _, _)
BMulC(a, b, k, c) ==
  IF k > Len(a) THEN <<>>
  ELSE LET s == c + ConvSum(a, b, k, 1)
       IN  <<s % 256>> \o BMulC(a, b, k + 1, s \div 256)

\* product modulo 2^(8 * Len(a))
BMul(a, b) == BMulC(a, b, 1, 0)

\* remainder carried into byte i when a non-negative a is divided by d
RECURSIVE BRem(_, _, _)
BRem(a, d, i) ==
  IF i > Len(a) THEN 0 ELSE (BRem(a, d, i + 1) * 256 + a[i]) % d

\* floor(a / d) for a non-negative wide a and a small d
BDiv(a, d) == [i \in DOMAIN a |-> (BRem(a, d, i + 1) * 256 + a[i]) \div d]

\* int64 wrap-around: keep the low DurationBytes bytes, sign-extended
Wrap64(a) ==
  [i \in DOMAIN a |->
     IF i <= DurationBytes THEN a[i]
     ELSE IF a[DurationBytes] >= 128 THEN 255 ELSE 0]

\* int64 multiplication, as Go's * on time.Duration
Mul64(a, b) == Wrap64(BMul(a, b))

Second == BI(1000000000)
Hour == BMul(BI(3600), Second)

(***************************************************************************)
(* Small bit operations on permission and key-usage masks.                 *)
(***************************************************************************)
RECURSIVE AndNot(_, _)
AndNot(a, b) ==
  IF a = 0 THEN 0
  ELSE (IF a % 2 = 1 /\ b % 2 = 0 THEN 1 ELSE 0) + 2 * AndNot(a \div 2, b \div 2)

RECURSIVE BitOr(_, _)
BitOr(a, b) ==
  IF a = 0 /\ b = 0 THEN 0
  ELSE (IF a % 2 = 1 \/ b % 2 = 1 THEN 1 ELSE 0) + 2 * BitOr(a \div 2, b \div 2)

HasBit(m, bit) == (m \div bit) % 2 = 1

(***************************************************************************)
(* Paths: sequences of characters.                                         *)
(***************************************************************************)
PathChars == {"a", ".", "/"}

RECURSIVE SeqsUpTo(_, _)
SeqsUpTo(S, n) ==
  IF n = 0 THEN {<<>>}
  ELSE LET shorter == SeqsUpTo(S, n - 1)
       IN  shorter \cup {Append(p, c) : p \in shorter, c \in S}

AllPaths == SeqsUpTo(PathChars, MaxPathLen)

DotCrt == <<".", "c", "r", "t">>

\* os.IsPathSeparator on the target platform
IsPathSeparator(c) == c = "/"

\* filepath.Ext: scan from the end, stop at a separator, cut at the first dot met
RECURSIVE ExtFrom(_, _)
ExtFrom(path, i) ==
  IF i < 1 \/ IsPathSeparator(path[i]) THEN <<>>
  ELSE IF path[i] = "." THEN SubSeq(path, i, Len(path))
  ELSE ExtFrom(path, i - 1)

\* Ext with the separator test left out: the dot is looked for in the whole path
RECURSIVE ExtFromAnyElem(_, _)
ExtFromAnyElem(path, i) ==
  IF i < 1 THEN <<>>
  ELSE IF path[i] = "." THEN SubSeq(path, i, Len(path))
  ELSE ExtFromAnyElem(path, i - 1)

Ext_AnyElem(path) == ExtFromAnyElem(path, Len(path))

Ext(path) == ExtFrom(path, Len(path))

\* strings.TrimSuffix
TrimSuffix(s, suffix) ==
  IF Len(suffix) <= Len(s) /\ SubSeq(s, Len(s) - Len(suffix) + 1, Len(s)) = suffix
  THEN SubSeq(s, 1, Len(s) - Len(suffix))
  ELSE s

(***************************************************************************)
(* Values the environment hands to a run.                                  *)
(***************************************************************************)
\* -days values: the default, small ones, and the ones around the int64 edge
\* of days * 24h (106751 days is the last that fits)
DaysSamples == {DefaultDays, 30, 1, 0, -1, 106751, 106752, -106752, 213504}

\* scalars ecdsa.GenerateKey may draw, in [1, CurveN - 1]
KeyScalars == {1, 255, 256, 1000}

\* values rand.Int(rand.Reader, 1 << 128) may draw: 0, 1 and 2^128 - 1
SerialSamples ==
  { [i \in 1..(SerialBits \div 8) |-> 0],
    [i \in 1..(SerialBits \div 8) |-> IF i = 1 THEN 1 ELSE 0],
    [i \in 1..(SerialBits \div 8) |-> 255] }

\* nanoseconds within the second at which time.Now() is read
NanoSamples == {0, 1, 999999999}

\* process umask: none, 022, 077
Umasks == {0, 18, 63}

\* seconds since year 1 of an instant in November 2026
NowSeconds == BAdd(BMul(BI(63929), BI(1000000)), BI(496800))

NowAt(nsec) == BAdd(BMul(NowSeconds, Second), BI(nsec))

\* durations a direct caller of NewCertificate may pass
ClientDurations ==
  { BI(0), BI(1), BI(-1), BI(500000000), Second, Hour, BNeg(Hour) }

CommonNames == {"Self Signed Cert", "example.com"}

(***************************************************************************)
(* The filesystem: a map from path to file.  Distinct path strings name    *)
(* distinct files; the process runs as an unprivileged user owning them.   *)
(***************************************************************************)
NoFile == [exists |-> FALSE]
EmptyData == [kind |-> "empty"]
OtherData == [kind |-> "other"]

\* what may lie at an output path before the run: nothing, a 0644 file,
\* a write-only 0200 file
PreFiles ==
  { NoFile,
    [exists |-> TRUE, mode |-> 420, data |-> OtherData],
    [exists |-> TRUE, mode |-> 128, data |-> OtherData] }

Lookup(fsys, name) == IF name \in DOMAIN fsys THEN fsys[name] ELSE NoFile

Put(fsys, name, file) ==
  [q \in DOMAIN fsys \cup {name} |-> IF q = name THEN file ELSE fsys[q]]

\* the last element of a path: what follows its last separator
RECURSIVE LastElem(_)
LastElem(path) ==
  IF path = <<>> \/ IsPathSeparator(path[Len(path)]) THEN <<>>
  ELSE Append(LastElem(SubSeq(path, 1, Len(path) - 1)), path[Len(path)])

\* paths that can only name a directory (or nothing): opening them for
\* writing fails
IsDirPath(path) == LastElem(path) \in {<<>>, <<".">>, <<".", ".">>}

WriteFaults == {"none", "open", "io"}

\* os.WriteFile(name, data, perm): open with O_WRONLY|O_CREATE|O_TRUNC and
\* mode perm, write, close.  perm (less the umask) is applied only when the
\* file is created; an existing file is truncated and keeps its mode.
WriteFile(fsys, name, data, perm, um, fault) ==
  LET f == Lookup(fsys, name)
  IN  IF \/ IsDirPath(name)
         \/ fault = "open"
         \/ (f.exists /\ ~HasBit(f.mode, 128))
      THEN [err |-> TRUE, fs |-> fsys]
      ELSE LET opened ==
                 IF f.exists THEN [f EXCEPT !.data = EmptyData]
                 ELSE [exists |-> TRUE, mode |-> AndNot(perm, um), data |-> EmptyData]
           IN  IF fault = "io"
               THEN [err |-> TRUE, fs |-> Put(fsys, name, opened)]
               ELSE [err |-> FALSE,
                     fs |-> Put(fsys, name, [opened EXCEPT !.data = data])]

\* os.ReadFile(name): needs the file and the owner's read permission
ReadFile(fsys, name) ==
  LET f == Lookup(fsys, name)
  IN  IF f.exists /\ HasBit(f.mode, 256)
      THEN [err |-> FALSE, data |-> f.data]
      ELSE [err |-> TRUE]

(***************************************************************************)
(* Keys (src/x509/privkey.go).                                             *)
(***************************************************************************)
Nil == [nil |-> TRUE]

\* curve.ScalarBaseMult in the toy group
ScalarBaseMult(k) == [X |-> (k * 3) % CurveN, Y |-> (k * k + 1) % CurveN]

RECURSIVE ByteLen(_)
ByteLen(n) == IF n < 256 THEN 1 ELSE 1 + ByteLen(n \div 256)

\* big.Int.FillBytes: big-endian, zero-extended to n bytes
RECURSIVE FillBytes(_, _)
FillBytes(d, n) ==
  IF n = 0 THEN <<>> ELSE Append(FillBytes(d \div 256, n - 1), d % 256)

\* big.Int.SetBytes: big-endian bytes to integer
RECURSIVE SetBytes(_)
SetBytes(b) ==
  IF b = <<>> THEN 0
  ELSE SetBytes(SubSeq(b, 1, Len(b) - 1)) * 256 + b[Len(b)]

\* ecdsa.GenerateKey(elliptic.P256(), rand.Reader) having drawn scalar d
GenerateKey(d) == [Curve |-> "P-256", D |-> d, PublicKey |-> ScalarBaseMult(d)]

\* NewPrivateKey; gen is the outcome of ecdsa.GenerateKey
NewPrivateKey(gen) ==
  IF gen.err
  THEN [err |-> TRUE, key |-> Nil, log |-> <<"Failed to generate private key">>]
  ELSE [err |-> FALSE, key |-> [key |-> GenerateKey(gen.D)], log |-> <<>>]

\* x509.MarshalECPrivateKey: version 1, the scalar in as many bytes as the
\* curve order takes, the curve's OID, the public point
MarshalECPrivateKey(key) ==
  IF key.Curve # "P-256" THEN [err |-> TRUE]
  ELSE [err |-> FALSE,
        der |-> [kind |-> "ECPrivateKey",
                 Version |-> 1,
                 PrivateKey |-> FillBytes(key.D, ByteLen(CurveN)),
                 NamedCurveOID |-> "prime256v1",
                 PublicKey |-> key.PublicKey]]

\* x509.ParseECPrivateKey: the public point is recomputed from the scalar
ParseECPrivateKey(der) ==
  IF der.kind # "ECPrivateKey" THEN [err |-> TRUE]
  ELSE IF der.Version # 1 \/ der.NamedCurveOID # "prime256v1" THEN [err |-> TRUE]
  ELSE LET k == SetBytes(der.PrivateKey)
       IN  IF k >= CurveN THEN [err |-> TRUE]
           ELSE [err |-> FALSE,
                 key |-> [Curve |-> "P-256", D |-> k, PublicKey |-> ScalarBaseMult(k)]]

\* PrivateKey.SaveToFile
KeySaveToFile(p, filePath, fsys, um, fault) ==
  LET m == MarshalECPrivateKey(p.key)
  IN  IF m.err
      THEN [err |-> TRUE, fs |-> fsys, log |-> <<"Failed to marshal private key to DER">>]
      ELSE LET w == WriteFile(fsys, filePath, m.der, KeyFileMode, um, fault)
           IN  [err |-> w.err, fs |-> w.fs,
                log |-> IF w.err THEN <<"Failed to write DER data to private key file">>
                        ELSE <<>>]

\* LoadPrivateKeyFromFile
LoadPrivateKeyFromFile(filePath, fsys) ==
  LET r == ReadFile(fsys, filePath)
  IN  IF r.err THEN [err |-> TRUE, key |-> Nil]
      ELSE LET k == ParseECPrivateKey(r.data)
           IN  IF k.err THEN [err |-> TRUE, key |-> Nil]
               ELSE [err |-> FALSE, key |-> [key |-> k.key]]

(***************************************************************************)
(* Certificates (NewCertificate, Certificate.SaveToFile).                  *)
(***************************************************************************)
ExtKeyUsageServerAuth == "ServerAuth"
ExtKeyUsageClientAuth == "ClientAuth"

\* the template with the "if isCA" block left out
Template_NoCABlock(serialNumber, cn, organization, dnsNames, ipAddresses, now, d, ca) ==
  [SerialNumber |-> serialNumber,
   Subject |-> [CommonName |-> cn, Organization |-> organization],
   NotBefore |-> now,
   NotAfter |-> BAdd(now, d),
   KeyUsage |-> KeyUsageDigitalSignature,
   ExtKeyUsage |-> <<ExtKeyUsageServerAuth, ExtKeyUsageClientAuth>>,
   BasicConstraintsValid |-> TRUE,
   IsCA |-> FALSE,
   DNSNames |-> dnsNames,
   IPAddresses |-> ipAddresses]

\* the x509.Certificate template NewCertificate fills in, and the "if isCA"
\* block after it
Template(serialNumber, cn, organization, dnsNames, ipAddresses, now, d, ca) ==
  [SerialNumber |-> serialNumber,
   Subject |-> [CommonName |-> cn, Organization |-> organization],
   NotBefore |-> now,
   NotAfter |-> BAdd(now, d),
   KeyUsage |-> IF ca THEN BitOr(KeyUsageDigitalSignature, KeyUsageCertSign)
                ELSE KeyUsageDigitalSignature,
   ExtKeyUsage |-> <<ExtKeyUsageServerAuth, ExtKeyUsageClientAuth>>,
   BasicConstraintsValid |-> TRUE,
   IsCA |-> ca,
   DNSNames |-> dnsNames,
   IPAddresses |-> ipAddresses]

\* a time as DER carries it (UTCTime / GeneralizedTime): whole seconds
EncodeTime(t) == BDiv(BDiv(t, 1000), 1000000)

\* a DER time read back: the instant at that whole second
DecodeTime(secs) == BMul(secs, Second)

\* x509.CreateCertificate(rand, template, parent, pub, priv): the signed DER
CreateCertificate(template, parent, pub, priv) ==
  [kind |-> "Certificate",
   SerialNumber |-> template.SerialNumber,
   Issuer |-> parent.Subject,
   Subject |-> template.Subject,
   NotBefore |-> EncodeTime(template.NotBefore),
   NotAfter |-> EncodeTime(template.NotAfter),
   KeyUsage |-> template.KeyUsage,
   ExtKeyUsage |-> template.ExtKeyUsage,
   BasicConstraintsValid |-> template.BasicConstraintsValid,
   IsCA |-> template.IsCA,
   DNSNames |-> template.DNSNames,
   IPAddresses |-> template.IPAddresses,
   PublicKey |-> pub,
   SignedWith |-> priv.PublicKey]

\* x509.ParseCertificate
ParseCertificate(der) ==
  [SerialNumber |-> der.SerialNumber,
   Issuer |-> der.Issuer,
   Subject |-> der.Subject,
   NotBefore |-> DecodeTime(der.NotBefore),
   NotAfter |-> DecodeTime(der.NotAfter),
   KeyUsage |-> der.KeyUsage,
   ExtKeyUsage |-> der.ExtKeyUsage,
   BasicConstraintsValid |-> der.BasicConstraintsValid,
   IsCA |-> der.IsCA,
   DNSNames |-> der.DNSNames,
   IPAddresses |-> der.IPAddresses,
   PublicKey |-> der.PublicKey,
   SignedWith |-> der.SignedWith]

CertFaults == {"none", "rand", "create", "parse"}

\* NewCertificate.  rnd is what rand.Int draws, now what time.Now() reads,
\* fault the library call that fails, if any.  calls lists the library calls
\* made, in order.
NewCertificate(key, cn, organization, dnsNames, ipAddresses, d, ca, rnd, now, fault) ==
  IF fault = "rand"
  THEN [err |-> TRUE, cert |-> Nil, calls |-> <<"rand.Int">>,
        log |-> <<"Failed to generate serial number">>]
  ELSE LET template == Template(rnd, cn, organization, dnsNames, ipAddresses, now, d, ca)
           pubKey == key.key.PublicKey
           derBytes == CreateCertificate(template, template, pubKey, key.key)
       IN  IF fault = "create"
           THEN [err |-> TRUE, cert |-> Nil,
                 calls |-> <<"rand.Int", "time.Now", "x509.CreateCertificate">>,
                 log |-> <<"Failed to create certificate">>]
           ELSE IF fault = "parse"
           THEN [err |-> TRUE, cert |-> Nil,
                 calls |-> <<"rand.Int", "time.Now", "x509.CreateCertificate",
                             "x509.ParseCertificate">>,
                 log |-> <<"Failed to parse created certificate">>]
           ELSE [err |-> FALSE,
                 cert |-> [cert |-> ParseCertificate(derBytes), derBytes |-> derBytes],
                 calls |-> <<"rand.Int", "time.Now", "x509.CreateCertificate",
                             "x509.ParseCertificate">>,
                 log |-> <<>>]

\* Certificate.SaveToFile
CertSaveToFile(c, filePath, fsys, um, fault) ==
  IF c.derBytes = Nil THEN [err |-> TRUE, fs |-> fsys, log |-> <<>>]
  ELSE LET w == WriteFile(fsys, filePath, c.derBytes, CertFileMode, um, fault)
       IN  [err |-> w.err, fs |-> w.fs,
            log |-> IF w.err THEN <<"Failed to write DER data to certificate file">>
                    ELSE <<>>]

(***************************************************************************)
(* The command-line tools.                                                 *)
(***************************************************************************)
\* the check left out
KeyPathRejected_Never(path) == FALSE

\* if privKeyFilePath == "" / if outputFilePath == ""
KeyPathRejected(path) == path = <<>>

\* the certificate path main derives when -cert is empty
DeriveCertPath(keyPath) == TrimSuffix(keyPath, Ext(keyPath)) \o DotCrt

\* validFor := time.Duration(validityDays) * 24 * time.Hour
ValidFor(days) == Mul64(Mul64(BI(days), BI(24)), Hour)

VARIABLES
  tool,             \* "keygen", "certgen", or "client" (a direct caller of the package)
  pc,               \* the next step of main
  privKeyFilePath,  \* -key (for keygen: -o, outputFilePath)
  certFlag,         \* -cert as given on the command line
  certFilePath,     \* main's certFilePath variable
  commonName,       \* -cn
  org,              \* -org
  validityDays,     \* -days
  rand,             \* what the random source and the clock will yield
  umask,            \* the process umask
  fs0,              \* the filesystem before the run
  fs,               \* the filesystem
  privKey,          \* main's privKey
  validFor,         \* the validFor passed to NewCertificate
  isCA,             \* the isCA passed to NewCertificate
  issuedAt,         \* the time NewCertificate read
  cert,             \* the certificate NewCertificate returned
  exitCode,         \* the process exit status, -1 while running
  ops,              \* the steps main executed, with their outcome
  calls,            \* the library calls made: crypto, clock, file writes
  errLog,           \* the messages logged with slog.Error
  loaded            \* the result of LoadPrivateKeyFromFile, once called

vars == <<tool, pc, privKeyFilePath, certFlag, certFilePath, commonName, org,
          validityDays, rand, umask, fs0, fs, privKey, validFor, isCA,
          issuedAt, cert, exitCode, ops, calls, errLog, loaded>>

flags == <<tool, privKeyFilePath, certFlag, commonName, org, validityDays,
           rand, umask, fs0>>

\* the filesystem before a run: preKey at the key path, preCert where the
\* certificate will go
InitialFs(keyPath, cflag, preKey, preCert) ==
  LET certPath == IF cflag = <<>> THEN DeriveCertPath(keyPath) ELSE cflag
      withCert == IF preCert.exists THEN Put(<<>>, certPath, preCert) ELSE <<>>
  IN  IF preKey.exists THEN Put(withCert, keyPath, preKey) ELSE withCert

InitCommon ==
  /\ pc = "start"
  /\ certFilePath = certFlag
  /\ fs = fs0
  /\ privKey = Nil
  /\ validFor = Nil
  /\ isCA = FALSE
  /\ issuedAt = Nil
  /\ cert = Nil
  /\ exitCode = -1
  /\ ops = <<>>
  /\ calls = <<>>
  /\ errLog = <<>>
  /\ loaded = Nil

DefaultRand ==
  [scalar |-> 255, serial |-> [i \in 1..(SerialBits \div 8) |-> IF i = 1 THEN 1 ELSE 0],
   nsec |-> 1]

\* every flag value of -key / -o and -cert, the rest at its default
InitPaths ==
  /\ tool \in {"keygen", "certgen"}
  /\ privKeyFilePath \in AllPaths
  /\ certFlag \in (IF tool = "certgen" THEN AllPaths ELSE {<<>>})
  /\ commonName = "Self Signed Cert"
  /\ org = "My Org"
  /\ validityDays = DefaultDays
  /\ rand = DefaultRand
  /\ umask = 18
  /\ fs0 = <<>>
  /\ InitCommon

\* every -days value, every clock reading and every serial drawn
InitClock ==
  /\ tool = "certgen"
  /\ privKeyFilePath = <<"a">>
  /\ certFlag = <<>>
  /\ commonName \in CommonNames
  /\ org = "My Org"
  /\ validityDays \in DaysSamples
  /\ rand \in [scalar : {DefaultRand.scalar}, serial : SerialSamples, nsec : NanoSamples]
  /\ umask = 18
  /\ fs0 = <<>>
  /\ InitCommon

\* every earlier state of the output files, every umask and every key drawn,
\* with -cert absent or naming the key path
InitFiles ==
  /\ tool \in {"keygen", "certgen"}
  /\ privKeyFilePath = <<"a">>
  /\ certFlag \in (IF tool = "certgen" THEN {<<>>, <<"a">>} ELSE {<<>>})
  /\ commonName = "Self Signed Cert"
  /\ org = "My Org"
  /\ validityDays = DefaultDays
  /\ rand \in [scalar : KeyScalars, serial : {DefaultRand.serial}, nsec : {DefaultRand.nsec}]
  /\ umask \in Umasks
  /\ \E preKey \in PreFiles, preCert \in (IF tool = "certgen" THEN PreFiles ELSE {NoFile}) :
       fs0 = InitialFs(privKeyFilePath, certFlag, preKey, preCert)
  /\ InitCommon

\* a program that calls NewCertificate directly
InitClient ==
  /\ tool = "client"
  /\ privKeyFilePath = <<"a">>
  /\ certFlag = <<>>
  /\ commonName = "example.com"
  /\ org = "Example"
  /\ validityDays = DefaultDays
  /\ rand \in [scalar : KeyScalars, serial : SerialSamples, nsec : NanoSamples]
  /\ umask = 18
  /\ fs0 = <<>>
  /\ InitCommon

Init == InitPaths \/ InitClock \/ InitFiles \/ InitClient

(***************************************************************************)
(* Steps of the tools.  A step that fails ends the process with status 1   *)
(* (os.Exit(1)); returning from main ends it with status 0.                *)
(***************************************************************************)
Exit(status) == pc' = "exit" /\ exitCode' = status

Goto(next) == pc' = next /\ UNCHANGED exitCode

Did(op, ok) == ops' = Append(ops, [op |-> op, ok |-> ok])

\* what the package logged, then what main logs when the call failed
Logged(r, msg) == errLog' = errLog \o r.log \o (IF r.err THEN <<msg>> ELSE <<>>)

\* the empty-path check both mains start with
CheckPath(next) ==
  /\ pc = "start"
  /\ IF KeyPathRejected(privKeyFilePath)
     THEN /\ errLog' = Append(errLog, IF tool = "keygen"
                                      THEN "Output file path cannot be empty"
                                      ELSE "Private key output file path cannot be empty")
          /\ Exit(1)
     ELSE /\ UNCHANGED errLog
          /\ Goto(next)
  /\ UNCHANGED <<flags, certFilePath, fs, privKey, validFor, isCA, issuedAt,
                 cert, ops, calls, loaded>>

\* privKey, err := x509.NewPrivateKey()
StepNewPrivateKey(next) ==
  /\ pc = "genkey"
  /\ \E genErr \in BOOLEAN :
       LET r == NewPrivateKey([err |-> genErr, D |-> rand.scalar])
       IN  /\ privKey' = r.key
           /\ Did("NewPrivateKey", ~r.err)
           /\ Logged(r, "Failed to generate private key")
           /\ IF r.err THEN Exit(1) ELSE Goto(next)
  /\ calls' = Append(calls, "ecdsa.GenerateKey")
  /\ UNCHANGED <<flags, certFilePath, fs, validFor, isCA, issuedAt, cert, loaded>>

\* privKey.SaveToFile(path); done says whether main returns after it
StepSaveKey(next, done) ==
  /\ pc = "savekey"
  /\ \E fault \in WriteFaults :
       LET r == KeySaveToFile(privKey, privKeyFilePath, fs, umask, fault)
       IN  /\ fs' = r.fs
           /\ Did("SaveKey", ~r.err)
           /\ Logged(r, "Failed to save private key to file")
           /\ IF r.err THEN Exit(1)
              ELSE IF done THEN Exit(0) ELSE Goto(next)
  /\ calls' = calls \o <<"x509.MarshalECPrivateKey", "os.WriteFile">>
  /\ UNCHANGED <<flags, certFilePath, privKey, validFor, isCA, issuedAt, cert, loaded>>

\* ---- the key-only generator
KeygenCheckPath == tool = "keygen" /\ CheckPath("genkey")

KeygenNewPrivateKey == tool = "keygen" /\ StepNewPrivateKey("savekey")

KeygenSaveKey == tool = "keygen" /\ StepSaveKey("exit", TRUE)

\* ---- the key+certificate generator
CertgenCheckPath == tool = "certgen" /\ CheckPath("derive")

CertgenDeriveCertPath ==
  /\ tool = "certgen"
  /\ pc = "derive"
  /\ certFilePath' = IF certFilePath = <<>> THEN DeriveCertPath(privKeyFilePath)
                     ELSE certFilePath
  /\ Goto("genkey")
  /\ UNCHANGED <<flags, fs, privKey, validFor, isCA, issuedAt, cert, ops, calls,
                 errLog, loaded>>

CertgenNewPrivateKey == tool = "certgen" /\ StepNewPrivateKey("savekey")

CertgenSaveKey == tool = "certgen" /\ StepSaveKey("newcert", FALSE)

CertgenNewCertificate ==
  /\ tool = "certgen"
  /\ pc = "newcert"
  /\ validFor' = ValidFor(validityDays)
  /\ isCA' = FALSE
  /\ issuedAt' = NowAt(rand.nsec)
  /\ \E fault \in CertFaults :
       LET r == NewCertificate(privKey, commonName, <<org>>, <<>>, <<>>, validFor',
                               isCA', rand.serial, issuedAt', fault)
       IN  /\ cert' = r.cert
           /\ calls' = calls \o r.calls
           /\ Did("NewCertificate", ~r.err)
           /\ Logged(r, "Failed to generate certificate")
           /\ IF r.err THEN Exit(1) ELSE Goto("savecert")
  /\ UNCHANGED <<flags, certFilePath, fs, privKey, loaded>>

\* the same step with the os.Exit(1) after a failed save left out
CertgenSaveCert_NoExit ==
  /\ tool = "certgen"
  /\ pc = "savecert"
  /\ \E fault \in WriteFaults :
       LET r == CertSaveToFile(cert, certFilePath, fs, umask, fault)
       IN  /\ fs' = r.fs
           /\ Did("SaveCert", ~r.err)
           /\ Logged(r, "Failed to save certificate to file")
           /\ Exit(0)
  /\ calls' = Append(calls, "os.WriteFile")
  /\ UNCHANGED <<flags, certFilePath, privKey, validFor, isCA, issuedAt, cert, loaded>>

CertgenSaveCert ==
  /\ tool = "certgen"
  /\ pc = "savecert"
  /\ \E fault \in WriteFaults :
       LET r == CertSaveToFile(cert, certFilePath, fs, umask, fault)
       IN  /\ fs' = r.fs
           /\ Did("SaveCert", ~r.err)
           /\ Logged(r, "Failed to save certificate to file")
           /\ IF r.err THEN Exit(1) ELSE Exit(0)
  /\ calls' = Append(calls, "os.WriteFile")
  /\ UNCHANGED <<flags, certFilePath, privKey, validFor, isCA, issuedAt, cert, loaded>>

\* ---- a program calling the package directly
ClientNewPrivateKey ==
  /\ tool = "client"
  /\ pc = "start"
  /\ privKey' = NewPrivateKey([err |-> FALSE, D |-> rand.scalar]).key
  /\ Did("NewPrivateKey", TRUE)
  /\ calls' = Append(calls, "ecdsa.GenerateKey")
  /\ Goto("newcert")
  /\ UNCHANGED <<flags, certFilePath, fs, validFor, isCA, issuedAt, cert, errLog, loaded>>

ClientNewCertificate ==
  /\ tool = "client"
  /\ pc = "newcert"
  /\ \E d \in ClientDurations, ca \in BOOLEAN, fault \in CertFaults :
       LET now == NowAt(rand.nsec)
           r == NewCertificate(privKey, commonName, <<org>>, <<>>, <<>>, d, ca,
                               rand.serial, now, fault)
       IN  /\ validFor' = d
           /\ isCA' = ca
           /\ issuedAt' = now
           /\ cert' = r.cert
           /\ calls' = calls \o r.calls
           /\ errLog' = errLog \o r.log
           /\ Did("NewCertificate", ~r.err)
  /\ Goto("exit")
  /\ UNCHANGED <<flags, certFilePath, fs, privKey, loaded>>

\* LoadPrivateKeyFromFile(path) called on the key path right after
\* SaveToFile returned nil (by another process: its log is not this one's)
LoadKey ==
  /\ loaded = Nil
  /\ ops # <<>>
  /\ ops[Len(ops)] = [op |-> "SaveKey", ok |-> TRUE]
  /\ loaded' = LoadPrivateKeyFromFile(privKeyFilePath, fs)
  /\ UNCHANGED <<flags, pc, certFilePath, fs, privKey, validFor, isCA, issuedAt,
                 cert, exitCode, ops, calls, errLog>>

Next ==
  \/ KeygenCheckPath
  \/ KeygenNewPrivateKey
  \/ KeygenSaveKey
  \/ CertgenCheckPath
  \/ CertgenDeriveCertPath
  \/ CertgenNewPrivateKey
  \/ CertgenSaveKey
  \/ CertgenNewCertificate
  \/ CertgenSaveCert
  \/ ClientNewPrivateKey
  \/ ClientNewCertificate
  \/ LoadKey

Spec == Init /\ [][Next]_vars

(***************************************************************************)
(* Properties.                                                             *)
(***************************************************************************)
CliTools == {"keygen", "certgen"}

StepsOf(t) ==
  IF t = "keygen" THEN <<"NewPrivateKey", "SaveKey">>
  ELSE <<"NewPrivateKey", "SaveKey", "NewCertificate", "SaveCert">>

StepFailed == \E i \in DOMAIN ops : ~ops[i].ok

StepOk(op) == \E i \in DOMAIN ops : ops[i] = [op |-> op, ok |-> TRUE]

\* C1: in both tools the process exits with status 1 exactly when the key
\* path is empty or an executed step fails, and with status 0 otherwise; the
\* steps run in order, and no step runs after a failed one.
C1_ExitStatus ==
  tool \in CliTools =>
    /\ Len(ops) <= Len(StepsOf(tool))
    /\ \A i \in DOMAIN ops : ops[i].op = StepsOf(tool)[i]
    /\ \A i \in 1..(Len(ops) - 1) : ops[i].ok
    /\ pc # "exit" => exitCode = -1 /\ ~StepFailed
    /\ pc = "exit" =>
         /\ exitCode = IF privKeyFilePath = <<>> \/ StepFailed THEN 1 ELSE 0
         /\ (exitCode = 1) = (errLog # <<>>)
         /\ exitCode = 0 => Len(ops) = Len(StepsOf(tool))
         /\ privKeyFilePath = <<>> => ops = <<>>

\* the certificate save failed after three good steps, and the process exited 1
C1_Witness ==
  /\ tool = "certgen"
  /\ pc = "exit"
  /\ exitCode = 1
  /\ Len(ops) = 4
  /\ ops[4] = [op |-> "SaveCert", ok |-> FALSE]

\* C2: with an empty key path the process exits with status 1 and nothing
\* was attempted: no key generation, no serial number, no signing, no file write.
C2_EmptyKeyPath ==
  tool \in CliTools /\ privKeyFilePath = <<>> =>
    /\ pc \in {"start", "exit"}
    /\ pc = "exit" => exitCode = 1 /\ Len(errLog) = 1
    /\ calls = <<>>
    /\ ops = <<>>
    /\ fs = fs0
    /\ privKey = Nil
    /\ cert = Nil

\* a run with an empty key path that has ended
C2_Witness ==
  /\ tool \in CliTools
  /\ privKeyFilePath = <<>>
  /\ pc = "exit"
  /\ exitCode = 1
  /\ errLog # <<>>

HoldsKey(path) ==
  /\ privKey # Nil
  /\ Lookup(fs, path).exists
  /\ Lookup(fs, path).data = MarshalECPrivateKey(privKey.key).der

HoldsCert(path) ==
  /\ cert # Nil
  /\ Lookup(fs, path).exists
  /\ Lookup(fs, path).data = cert.derBytes

\* C3: when the key+certificate tool exits 0 the key file holds the key's DER
\* and the certificate file the certificate's DER; when it exits 1 exactly
\* the artifacts whose save completed are written: a saved key stays, and
\* the certificate file is untouched unless the certificate save was reached.
C3_Artifacts ==
  tool = "certgen" /\ pc = "exit" =>
    /\ exitCode = 0 => HoldsKey(privKeyFilePath) /\ HoldsCert(certFilePath)
    /\ exitCode = 1 /\ StepOk("SaveKey") => HoldsKey(privKeyFilePath)
    /\ exitCode = 1 /\ ~StepOk("SaveKey") /\ certFilePath # privKeyFilePath =>
         Lookup(fs, certFilePath) = Lookup(fs0, certFilePath)

HasNoDot(s) == \A i \in DOMAIN s : s[i] # "."

\* ext is the extension of path: empty when the last element has no dot,
\* else the suffix that starts at the last dot of the last element
IsExtOf(ext, path) ==
  \/ ext = <<>> /\ HasNoDot(LastElem(path))
  \/ /\ ext # <<>>
     /\ ext[1] = "."
     /\ \A j \in 2..Len(ext) : ext[j] \notin {".", "/"}

\* C4: for a non-empty key path, the certificate path is -cert when that is
\* non-empty, and otherwise the key path with its extension replaced by .crt
\* (.crt appended when there is no extension).
C4_CertPath ==
  tool = "certgen" /\ pc \notin {"start", "derive"} /\ privKeyFilePath # <<>> =>
    IF certFlag # <<>> THEN certFilePath = certFlag
    ELSE \E i \in 0..Len(privKeyFilePath) :
           /\ IsExtOf(SubSeq(privKeyFilePath, i + 1, Len(privKeyFilePath)), privKeyFilePath)
           /\ certFilePath = SubSeq(privKeyFilePath, 1, i) \o DotCrt

\* -key a.a with no -cert gave a.crt, and the run succeeded
C4_Witness ==
  /\ tool = "certgen"
  /\ pc = "exit"
  /\ exitCode = 0
  /\ certFlag = <<>>
  /\ privKeyFilePath = <<"a", ".", "a">>
  /\ certFilePath = <<"a", ".", "c", "r", "t">>

\* C5: for every -days value N the validity passed to the builder is exactly
\* N * 24 hours, and not-after - not-before of the certificate equals it.
C5_Validity ==
  tool = "certgen" =>
    /\ validFor # Nil => validFor = BMul(BI(validityDays), BMul(BI(24), Hour))
    /\ cert # Nil => BSub(cert.cert.NotAfter, cert.cert.NotBefore) = validFor

\* C6: for every certificate built, not-before <= time of issuance <= not-after.
C6_ValidAtIssuance ==
  cert # Nil =>
    /\ BLeq(cert.cert.NotBefore, issuedAt)
    /\ BLeq(issuedAt, cert.cert.NotAfter)

\* C7: a CA request sets certificate-signing (with digital-signature) and
\* the CA flag; a non-CA request gives exactly digital-signature and no CA
\* flag; either way the certificate is self-signed with the key's own public
\* key, basic constraints are valid, and the extended key usage is server
\* and client authentication.  The key+certificate tool never asks for a CA.
C7_KeyUsage ==
  cert # Nil =>
    /\ isCA => /\ HasBit(cert.cert.KeyUsage, KeyUsageCertSign)
               /\ HasBit(cert.cert.KeyUsage, KeyUsageDigitalSignature)
               /\ cert.cert.IsCA
    /\ ~isCA => cert.cert.KeyUsage = KeyUsageDigitalSignature /\ ~cert.cert.IsCA
    /\ cert.cert.Issuer = cert.cert.Subject
    /\ cert.cert.Subject = [CommonName |-> commonName, Organization |-> <<org>>]
    /\ cert.cert.PublicKey = privKey.key.PublicKey
    /\ cert.cert.SignedWith = privKey.key.PublicKey
    /\ cert.cert.BasicConstraintsValid
    /\ Len(cert.cert.ExtKeyUsage) = 2
    /\ {cert.cert.ExtKeyUsage[i] : i \in 1..2} = {ExtKeyUsageServerAuth, ExtKeyUsageClientAuth}
    /\ tool = "certgen" => ~isCA /\ ~cert.cert.IsCA

\* a CA certificate was built
C7_Witness ==
  /\ cert # Nil
  /\ isCA
  /\ cert.cert.IsCA
  /\ cert.cert.KeyUsage = 33

\* C8: after a successful key save the key file has mode 0600, and after a
\* successful certificate save the certificate file has mode 0644.
C8_FileModes ==
  /\ StepOk("SaveKey") => Lookup(fs, privKeyFilePath).mode = KeyFileMode
  /\ StepOk("SaveCert") => Lookup(fs, certFilePath).mode = CertFileMode

\* C9: loading the key right after a successful save succeeds and yields a
\* P-256 key with the public component of the key that was saved.
C9_SaveLoad ==
  loaded # Nil =>
    /\ ~loaded.err
    /\ loaded.key.key.Curve = "P-256"
    /\ loaded.key.key.PublicKey = privKey.key.PublicKey

IsPositive(n) == \E i \in DOMAIN n : n[i] # 0

\* C10: every certificate returned has a positive serial number below 2^128;
\* when drawing the serial fails no certificate is returned and nothing is
\* built or signed.
C10_Serial ==
  /\ cert # Nil =>
       /\ Len(cert.cert.SerialNumber) * 8 = SerialBits
       /\ IsPositive(cert.cert.SerialNumber)
  /\ \A i \in DOMAIN calls :
       (calls[i] = "rand.Int" /\ (i = Len(calls) \/ calls[i + 1] # "time.Now")) =>
         cert = Nil /\ i = Len(calls)

====
